---- MODULE Spec2Model ----
(***************************************************************************)
(* A model of the EarlyPrint tutorial notebooks (jupyter_execute/*.py):    *)
(* sentence segmentation (ep_xml, word2vec), tokenization and term counts  *)
(* (tf_idf, similarity), the metadata loops (metadata, similarity),        *)
(* standardize_name, the edge list, the graph B and subgraph_1660          *)
(* (metadata), top5_cosine (similarity), and of 1666_texts/get_texts.py.   *)
(*                                                                         *)
(* Strings are sequences of one-character strings, so that str.lower,      *)
(* str.split, str.replace, str.strip and re.sub are computed, not assumed. *)
(* Python's None is the value None below, which is no string.              *)
(***************************************************************************)
EXTENDS Integers, Sequences, FiniteSets, TLC

VARIABLES
    paradiselost,       \* ep_xml: the parsed document (sequence of <w>/<pc> leaves)
    ep_i,               \* ep_xml In[14]: position of the for loop in w_and_pc[:500]
    ep_all_sentences,   \* ep_xml In[14]: all_sentences
    ep_new_sentence,    \* ep_xml In[14]: new_sentence
    ep_pc,              \* ep_xml In[14]: "idle" | "loop" | "done"
    files,              \* word2vec In[3]: files (the parsed document of each path)
    f_i,                \* word2vec In[3]: position of "for f in files"
    w_i,                \* word2vec get_sentences: position of "for word in xml.iter"
    all_sentences,      \* word2vec In[3]: module-level all_sentences
    new_sentence,       \* word2vec get_sentences: local new_sentence
    w2v_pc,             \* word2vec: "idle" | "for" | "call" | "done" | "raised"
    tok_files,          \* tf_idf In[2] files / similarity In[2] filenames: path and tree
    tf_i,               \* tf_idf In[2]: position of "for f in files"
    tf_all_tokenized,   \* tf_idf In[2]: all_tokenized
    tf_df,              \* tf_idf In[3]: df
    tf_pc,              \* tf_idf: "idle" | "loop" | "counted" | "raised"
    sim_filekeys,       \* similarity In[2]: filekeys
    sim_i,              \* similarity In[3]: position of "for f in filenames"
    sim_all_tokenized,  \* similarity In[3]: all_tokenized
    sim_df,             \* similarity In[3]: df
    sim_pc,             \* similarity: "idle" | "start" | "loop" | "counted" | "raised"
    meta_files,         \* metadata In[4] files / similarity In[59] metadata_files
    md_i,               \* metadata In[4]: position of "for f in files"
    md_all_data,        \* metadata In[4]: all_data
    md_index,           \* metadata In[4]: index
    md_pc,              \* metadata In[4]: "idle" | "loop" | "done" | "raised"
    sm_i,               \* similarity In[59]: position of "for f in metadata_files"
    sm_all_metadata,    \* similarity In[59]: all_metadata
    sm_index,           \* similarity In[59]: index
    sm_pc,              \* similarity In[59]: "idle" | "loop" | "done" | "raised"
    nm_arg,             \* metadata standardize_name: the argument of the call
    nm_name,            \* metadata standardize_name: name
    name_abbrev,        \* metadata In[21]: name_abbrev, as a list of (key, value)
    nm_k,               \* metadata standardize_name: position of "for k,v in ..."
    nm_pc,              \* metadata standardize_name: "idle" | "call" | "loop" | "returned"
    net_files,          \* metadata In[22]: files (the parsed header of each path)
    el_i,               \* metadata In[22]: position of "for f in files"
    edgelist,           \* metadata In[22]: edgelist
    el_pc,              \* metadata In[22]: "idle" | "loop" | "done" | "raised"
    B,                  \* metadata In[23]: the graph B (node and edge attributes)
    subgraph_1660,      \* metadata In[25]: subgraph_1660 (nodes and edges of the view)
    g_pc,               \* metadata In[23], In[25]: "idle" | "built" | "subgraph" | "raised"
    cosine_df,          \* similarity In[57]: cosine_df (its index and column 'A53049')
    top5_cosine,        \* similarity In[58]: top5_cosine (labels and distances)
    top_pc,             \* similarity In[58]: "idle" | "ready" | "done"
    texts_csv,          \* get_texts: the content of texts.csv
    list_of_ids,        \* get_texts: list_of_ids
    gt_i,               \* get_texts: position of "for i in list_of_ids[:-1]"
    gt_commands,        \* get_texts: the commands given to subprocess.call
    gt_pc               \* get_texts: "idle" | "start" | "loop" | "done"

epvars == <<paradiselost, ep_i, ep_all_sentences, ep_new_sentence, ep_pc>>
w2vvars == <<files, f_i, w_i, all_sentences, new_sentence, w2v_pc>>
tfvars == <<tf_i, tf_all_tokenized, tf_df, tf_pc>>
simvars == <<sim_filekeys, sim_i, sim_all_tokenized, sim_df, sim_pc>>
tokvars == <<tok_files, tfvars, simvars>>
segvars == <<epvars, w2vvars>>
mdvars == <<md_i, md_all_data, md_index, md_pc>>
smvars == <<sm_i, sm_all_metadata, sm_index, sm_pc>>
metavars == <<meta_files, mdvars, smvars>>
namevars == <<nm_arg, nm_name, name_abbrev, nm_k, nm_pc>>
netvars == <<net_files, el_i, edgelist, el_pc, B, subgraph_1660, g_pc>>
topvars == <<cosine_df, top5_cosine, top_pc>>
gtvars == <<texts_csv, list_of_ids, gt_i, gt_commands, gt_pc>>
vars == <<segvars, tokvars, metavars, namevars, netvars, topvars, gtvars>>
\* What the steps of one notebook leave alone.
nonsegvars == <<tokvars, metavars, namevars, netvars, topvars, gtvars>>
nontokvars == <<segvars, metavars, namevars, netvars, topvars, gtvars>>
nonmetavars == <<segvars, tokvars, namevars, netvars, topvars, gtvars>>
nonnamevars == <<segvars, tokvars, metavars, netvars, topvars, gtvars>>
nonnetvars == <<segvars, tokvars, metavars, namevars, topvars, gtvars>>
nontopvars == <<segvars, tokvars, metavars, namevars, netvars, gtvars>>
nongtvars == <<segvars, tokvars, metavars, namevars, netvars, topvars>>

----------------------------------------------------------------------------
(* Values *)

\* Python's None: a value that is no character string.
None == <<"#None">>

\* An absent XML attribute (a key that is not in element.attrib).
Absent == <<"#absent">>

Min(a, b) == IF a <= b THEN a ELSE b

\* str.lower() on one character, for the letters the model uses.
LowerChar(c) ==
    CASE c = "A" -> "a"
      [] c = "C" -> "c"
      [] c = "E" -> "e"
      [] c = "T" -> "t"
      [] OTHER -> c

\* str.lower()
Lower(s) == [k \in 1..Len(s) |-> LowerChar(s[k])]

Str_sentence == <<"s", "e", "n", "t", "e", "n", "c", "e">>

----------------------------------------------------------------------------
(* Documents: the <w> and <pc> elements of a TEI file in document order.   *)
(* pos tells where the element hangs: "root" (a child of the body),        *)
(* "lfirst" (the first child of a new <l>), "lnext" (a later child of the  *)
(* same <l> as the element before it).                                     *)

Elem(tag, unit, lemma, reg, text) ==
    [tag |-> tag, unit |-> unit, lemma |-> lemma, reg |-> reg, text |-> text]

WText == Elem("w", Absent, Absent, Absent, <<"A", "b">>)
WLemma == Elem("w", Absent, <<"C", "d">>, Absent, <<"E", "f">>)
WReg == Elem("w", Absent, <<"C", "d">>, <<"A", "b">>, <<"E", "g">>)
WEmpty == Elem("w", Absent, Absent, Absent, None)
WRegEmpty == Elem("w", Absent, <<"C", "d">>, <<"A", "b">>, None)
PcSentence == Elem("pc", Str_sentence, Absent, Absent, <<".">>)
PcSentenceEmpty == Elem("pc", Str_sentence, Absent, Absent, None)
PcPlain == Elem("pc", Absent, Absent, Absent, <<",">>)
\* An <l> element, and getprevious() of a first child.
LineElem == Elem("l", Absent, Absent, Absent, None)
NoElem == Elem("#None", Absent, Absent, Absent, None)

LeafKinds == {WText, WLemma, WEmpty, PcSentence, PcSentenceEmpty, PcPlain}
Positions == {"root", "lfirst", "lnext"}

WellFormed(d) ==
    \A k \in 1..Len(d) :
        d[k].pos = "lnext" => (k > 1 /\ d[k - 1].pos \in {"lfirst", "lnext"})

Leaves(kinds) ==
    {[e |-> e, pos |-> p] : e \in kinds, p \in Positions}

DocsUpTo(kinds, n) ==
    {d \in UNION {[1..k -> Leaves(kinds)] : k \in 0..n} : WellFormed(d)}

----------------------------------------------------------------------------
(* ep_xml.py In[14]: the sentence loop *)

SampleLimit == 500

\* paradiselost.xpath("//tei:w|//tei:pc"): every <w> and <pc>, in document order.
W_and_pc(doc) == [k \in 1..Len(doc) |-> doc[k].e]

\* w_and_pc[:500]
Sample(doc) == SubSeq(W_and_pc(doc), 1, Min(SampleLimit, Len(doc)))

\* 'unit' in tag.attrib and tag.get('unit') == 'sentence'
IsSentenceEnd(tag) == tag.unit # Absent /\ tag.unit = Str_sentence

\* EpIter without line 262: the list is not started over after a boundary.
EpIter_NoReset ==
    /\ ep_pc = "loop"
    /\ ep_i <= Len(Sample(paradiselost))
    /\ LET tag == Sample(paradiselost)[ep_i] IN
        IF IsSentenceEnd(tag)
        THEN /\ ep_all_sentences' =
                    Append(ep_all_sentences,
                           IF tag.text # None
                           THEN Append(ep_new_sentence, tag.text)
                           ELSE ep_new_sentence)
             /\ ep_new_sentence' =
                    IF tag.text # None
                    THEN Append(ep_new_sentence, tag.text)
                    ELSE ep_new_sentence
        ELSE /\ ep_new_sentence' = Append(ep_new_sentence, tag.text)
             /\ UNCHANGED ep_all_sentences
    /\ ep_i' = ep_i + 1
    /\ UNCHANGED <<paradiselost, ep_pc, w2vvars, nonsegvars>>

\* One iteration of "for tag in w_and_pc[:500]".
EpIter ==
    /\ ep_pc = "loop"
    /\ ep_i <= Len(Sample(paradiselost))
    /\ LET tag == Sample(paradiselost)[ep_i] IN
        IF IsSentenceEnd(tag)
        THEN /\ ep_all_sentences' =
                    Append(ep_all_sentences,
                           IF tag.text # None
                           THEN Append(ep_new_sentence, tag.text)
                           ELSE ep_new_sentence)
             /\ ep_new_sentence' = <<>>
        ELSE /\ ep_new_sentence' = Append(ep_new_sentence, tag.text)
             /\ UNCHANGED ep_all_sentences
    /\ ep_i' = ep_i + 1
    /\ UNCHANGED <<paradiselost, ep_pc, w2vvars, nonsegvars>>

\* The loop is exhausted: print(all_sentences).
EpPrint ==
    /\ ep_pc = "loop"
    /\ ep_i > Len(Sample(paradiselost))
    /\ ep_pc' = "done"
    /\ UNCHANGED <<paradiselost, ep_i, ep_all_sentences, ep_new_sentence, w2vvars, nonsegvars>>

----------------------------------------------------------------------------
(* word2vec.py In[2], In[3]: get_sentences and the loop over files *)

\* The indices, in document order, of the elements xml.iter('{*}w') yields.
WordIdx(doc) ==
    LET RECURSIVE Collect(_)
        Collect(k) ==
            IF k > Len(doc) THEN <<>>
            ELSE IF doc[k].e.tag = "w" THEN <<k>> \o Collect(k + 1)
            ELSE Collect(k + 1)
    IN Collect(1)

\* word.getprevious(): the sibling just before the element, or None.
GetPrevious(doc, k) ==
    CASE doc[k].pos = "lnext" -> doc[k - 1].e
      [] doc[k].pos = "lfirst" -> NoElem
      [] OTHER -> IF k = 1 THEN NoElem
                  ELSE IF doc[k - 1].pos = "root" THEN doc[k - 1].e
                  ELSE LineElem

\* previous != None and previous.get('unit', previous) == 'sentence'
\* (the default, the element itself, is never equal to a string).
PreviousEndsSentence(previous) ==
    previous # NoElem /\ previous.unit # Absent /\ previous.unit = Str_sentence

\* word.get('lemma', word.text)
LemmaOrText(word) == IF word.lemma # Absent THEN word.lemma ELSE word.text

\* In[3] "for f in files": the call get_sentences(f), up to the loop (lines 37-40).
W2vCall ==
    /\ w2v_pc = "for"
    /\ f_i <= Len(files)
    /\ new_sentence' = <<>>
    /\ w_i' = 1
    /\ w2v_pc' = "call"
    /\ UNCHANGED <<files, f_i, all_sentences, epvars, nonsegvars>>

\* The iteration with new_sentence.clear() in place of new_sentence = []: the
\* list appended to all_sentences stays the list the call goes on filling.
GsIter_SharedList ==
    /\ w2v_pc = "call"
    /\ w_i <= Len(WordIdx(files[f_i]))
    /\ LET doc == files[f_i]
           k == WordIdx(doc)[w_i]
           word == doc[k].e
           split == PreviousEndsSentence(GetPrevious(doc, k))
           sentence == IF split THEN <<>> ELSE new_sentence
           shared == IF split THEN Append(all_sentences, <<>>) ELSE all_sentences
           n == Len(shared)
       IN IF LemmaOrText(word) = None
          THEN /\ all_sentences' = shared
               /\ new_sentence' = sentence
               /\ w2v_pc' = "raised"
               /\ UNCHANGED w_i
          ELSE /\ new_sentence' = Append(sentence, Lower(LemmaOrText(word)))
               /\ all_sentences' =
                    IF n > 0 /\ shared[n] = sentence
                    THEN [shared EXCEPT ![n] = Append(sentence, Lower(LemmaOrText(word)))]
                    ELSE shared
               /\ w_i' = w_i + 1
               /\ UNCHANGED w2v_pc
    /\ UNCHANGED <<files, f_i, epvars, nonsegvars>>

\* One iteration of "for word in xml.iter('{*}w')" (lines 42-47). None.lower()
\* raises AttributeError, which nothing catches.
GsIter ==
    /\ w2v_pc = "call"
    /\ w_i <= Len(WordIdx(files[f_i]))
    /\ LET doc == files[f_i]
           k == WordIdx(doc)[w_i]
           word == doc[k].e
           split == PreviousEndsSentence(GetPrevious(doc, k))
           sentence == IF split THEN <<>> ELSE new_sentence
       IN /\ all_sentences' = IF split THEN Append(all_sentences, new_sentence)
                              ELSE all_sentences
          /\ IF LemmaOrText(word) = None
             THEN /\ new_sentence' = sentence
                  /\ w2v_pc' = "raised"
                  /\ UNCHANGED w_i
             ELSE /\ new_sentence' = Append(sentence, Lower(LemmaOrText(word)))
                  /\ w_i' = w_i + 1
                  /\ UNCHANGED w2v_pc
    /\ UNCHANGED <<files, f_i, epvars, nonsegvars>>

\* The loop is exhausted: get_sentences returns None and its locals are gone.
GsReturn ==
    /\ w2v_pc = "call"
    /\ w_i > Len(WordIdx(files[f_i]))
    /\ new_sentence' = <<>>
    /\ w_i' = 0
    /\ f_i' = f_i + 1
    /\ w2v_pc' = "for"
    /\ UNCHANGED <<files, all_sentences, epvars, nonsegvars>>

\* "for f in files" is exhausted.
W2vEnd ==
    /\ w2v_pc = "for"
    /\ f_i > Len(files)
    /\ w2v_pc' = "done"
    /\ UNCHANGED <<files, f_i, w_i, all_sentences, new_sentence, epvars, nonsegvars>>

\* The word2vec notebook is run on the document the XML tutorial segmented.
RunWord2vec ==
    /\ ep_pc = "done"
    /\ w2v_pc = "idle"
    /\ w2v_pc' = "for"
    /\ UNCHANGED <<files, f_i, w_i, all_sentences, new_sentence, epvars, nonsegvars>>

----------------------------------------------------------------------------
(* Strings *)

\* The index of the first occurrence of the character sep in s, 0 when none.
RECURSIVE FindChar(_, _, _)
FindChar(s, sep, from) ==
    IF from > Len(s) THEN 0
    ELSE IF s[from] = sep THEN from
    ELSE FindChar(s, sep, from + 1)

\* str.split(sep) for a one-character sep.
RECURSIVE Split(_, _)
Split(s, sep) ==
    LET at == FindChar(s, sep, 1) IN
    IF at = 0 THEN <<s>>
    ELSE <<SubSeq(s, 1, at - 1)>> \o Split(SubSeq(s, at + 1, Len(s)), sep)

\* seq[-1]
Last(seq) == seq[Len(seq)]

----------------------------------------------------------------------------
(* tf_idf.py In[2], In[3] and similarity.py In[2], In[3]: tokens and counts *)

\* What an operator yields where the code it stands for raises: in place of a
\* string, and in place of a list of strings.
Raised == <<"#raised">>
RaisedList == <<Raised>>

\* [word.get(attr, word.text).lower() for word in word_tags if word.text != None]
\* over word_tags = xml.findall(".//{*}w").
RECURSIVE TokensFrom(_, _, _)
TokensFrom(doc, attr, k) ==
    IF k > Len(doc) THEN <<>>
    ELSE LET word == doc[k].e
             rest == TokensFrom(doc, attr, k + 1)
         IN IF word.tag = "w" /\ word.text # None
            THEN LET got == IF word[attr] # Absent THEN word[attr] ELSE word.text
                 IN IF got = None \/ rest = RaisedList THEN RaisedList
                    ELSE <<Lower(got)>> \o rest
            ELSE rest

\* Tokenize reading the other notebook's attribute ('lemma' for 'reg').
Tokenize_OtherAttr(doc, attr) ==
    TokensFrom(doc, IF attr = "reg" THEN "lemma" ELSE "reg", 1)

Tokenize(doc, attr) == TokensFrom(doc, attr, 1)

\* Counter(a): one pass over the list, adding one to the count of each item.
RECURSIVE CounterFrom(_, _, _)
CounterFrom(a, k, c) ==
    IF k > Len(a) THEN c
    ELSE LET w == a[k]
             n == IF w \in DOMAIN c THEN c[w] ELSE 0
         IN CounterFrom(a, k + 1,
                [x \in DOMAIN c \cup {w} |-> IF x = w THEN n + 1 ELSE c[x]])

Counter(a) == CounterFrom(a, 1, [x \in {} |-> 0])

\* A missing cell of a DataFrame.
NaN == -1

EmptyFrame == [index |-> <<>>, columns |-> {}, cell |-> <<>>]

\* pd.DataFrame(rows, index=index) for a list of dicts: one column per key of
\* any row, NaN where a row has no such key.
DataFrame(rows, index) ==
    LET columns == UNION {DOMAIN rows[r] : r \in 1..Len(rows)} IN
    [index |-> index,
     columns |-> columns,
     cell |-> [r \in 1..Len(rows) |->
                 [w \in columns |->
                     IF w \in DOMAIN rows[r] THEN rows[r][w] ELSE NaN]]]

\* fillna left out: the missing cells stay NaN.
FillNa_Omitted(df, value) == df

\* DataFrame.fillna(value)
FillNa(df, value) ==
    [df EXCEPT !.cell =
        [r \in DOMAIN df.cell |->
            [w \in df.columns |->
                IF df.cell[r][w] = NaN THEN value ELSE df.cell[r][w]]]]

\* [Counter(a) for a in all_tokenized]
AllCounted(all_tokenized) ==
    [r \in 1..Len(all_tokenized) |-> Counter(all_tokenized[r])]

\* tf_idf In[3]: f.split("/")[1].split(".")[0]; IndexError when there is no "/".
TfLabel(path) ==
    IF Len(Split(path, "/")) < 2 THEN Raised
    ELSE Split(Split(path, "/")[2], ".")[1]

\* similarity In[2]: f.split('/')[-1].split('.')[0]
SimLabel(path) == Split(Last(Split(path, "/")), ".")[1]

\* tf_idf In[2]: one iteration of "for f in files".
TfIter ==
    /\ tf_pc = "loop"
    /\ tf_i <= Len(tok_files)
    /\ LET words == Tokenize(tok_files[tf_i].tree, "reg") IN
        IF words = RaisedList
        THEN /\ tf_pc' = "raised"
             /\ UNCHANGED <<tf_i, tf_all_tokenized>>
        ELSE /\ tf_all_tokenized' = Append(tf_all_tokenized, words)
             /\ tf_i' = tf_i + 1
             /\ UNCHANGED tf_pc
    /\ UNCHANGED <<tok_files, tf_df, simvars, nontokvars>>

\* tf_idf In[3]: all_counted and df, once the loop is exhausted.
TfCount ==
    /\ tf_pc = "loop"
    /\ tf_i > Len(tok_files)
    /\ LET index == [r \in 1..Len(tok_files) |-> TfLabel(tok_files[r].path)] IN
        IF \E r \in 1..Len(index) : index[r] = Raised
        THEN /\ tf_pc' = "raised"
             /\ UNCHANGED tf_df
        ELSE /\ tf_df' = FillNa(DataFrame(AllCounted(tf_all_tokenized), index), 0)
             /\ tf_pc' = "counted"
    /\ UNCHANGED <<tok_files, tf_i, tf_all_tokenized, simvars, nontokvars>>

\* The similarity notebook is run on the same directory of texts.
RunSimilarity ==
    /\ tf_pc \in {"counted", "raised"}
    /\ sim_pc = "idle"
    /\ sim_pc' = "start"
    /\ UNCHANGED <<tok_files, tfvars, sim_filekeys, sim_i, sim_all_tokenized,
                   sim_df, nontokvars>>

\* similarity In[2]: filekeys.
SimKeys ==
    /\ sim_pc = "start"
    /\ sim_filekeys' = [r \in 1..Len(tok_files) |-> SimLabel(tok_files[r].path)]
    /\ sim_pc' = "loop"
    /\ UNCHANGED <<tok_files, tfvars, sim_i, sim_all_tokenized, sim_df, nontokvars>>

\* similarity In[3]: one iteration of "for f in filenames".
SimIter ==
    /\ sim_pc = "loop"
    /\ sim_i <= Len(tok_files)
    /\ LET words == Tokenize(tok_files[sim_i].tree, "lemma") IN
        IF words = RaisedList
        THEN /\ sim_pc' = "raised"
             /\ UNCHANGED <<sim_i, sim_all_tokenized>>
        ELSE /\ sim_all_tokenized' = Append(sim_all_tokenized, words)
             /\ sim_i' = sim_i + 1
             /\ UNCHANGED sim_pc
    /\ UNCHANGED <<tok_files, tfvars, sim_filekeys, sim_df, nontokvars>>

\* similarity In[3]: all_counted and df, once the loop is exhausted.
SimCount ==
    /\ sim_pc = "loop"
    /\ sim_i > Len(tok_files)
    /\ sim_df' = FillNa(DataFrame(AllCounted(sim_all_tokenized), sim_filekeys), 0)
    /\ sim_pc' = "counted"
    /\ UNCHANGED <<tok_files, tfvars, sim_filekeys, sim_i, sim_all_tokenized, nontokvars>>

----------------------------------------------------------------------------
(* metadata.py In[4] and similarity.py In[59]: the metadata loops *)

\* An element of a header file: its 'when' attribute and its text.
MetaElem(when, text) == [when |-> when, text |-> text]

\* metadata.find(...) that finds nothing: None.
NoMeta == MetaElem(Absent, <<"#no element">>)

\* f.split("/")[-1].split("_")[0]
TcpId(path) == Split(Last(Split(path, "/")), "_")[1]

\* element.text; AttributeError when find() gave None.
ElementText(e) == IF e = NoMeta THEN Raised ELSE e.text

\* element.get("when"): None without the attribute; AttributeError when find()
\* gave None.
ElementWhen(e) ==
    IF e = NoMeta THEN Raised
    ELSE IF e.when # Absent THEN e.when ELSE None

\* Title with the lookup wrapped in try/except like the two after it.
Title_Caught(h) ==
    LET got == ElementText(h.title) IN IF got = Raised THEN None ELSE got

\* title = metadata.find(".//tei:sourceDesc//tei:title").text, outside any try.
Title(h) == ElementText(h.title)

\* Author without the try/except around the lookup.
Author_NoExcept(h) == ElementText(h.author)

\* try: author = ...find(author).text / except AttributeError: author = None
Author(h) ==
    LET got == ElementText(h.author) IN IF got = Raised THEN None ELSE got

\* try: date = ...find(date).get("when") / except AttributeError: date = None
Date(h) ==
    LET got == ElementWhen(h.date) IN IF got = Raised THEN None ELSE got

\* Whether the body of the loop raises for header h.
BodyRaises(h) == Raised \in {Title(h), Author(h), Date(h)}

\* {'title':title,'author':author,'date':date}
DataOf(h) == [title |-> Title(h), author |-> Author(h), date |-> Date(h)]

\* metadata In[4]: one iteration of "for f in files".
MdIter ==
    /\ md_pc = "loop"
    /\ md_i <= Len(meta_files)
    /\ LET h == meta_files[md_i] IN
        IF BodyRaises(h)
        THEN /\ md_pc' = "raised"
             /\ UNCHANGED <<md_i, md_all_data, md_index>>
        ELSE /\ md_all_data' = Append(md_all_data, DataOf(h))
             /\ md_index' = Append(md_index, TcpId(h.path))
             /\ md_i' = md_i + 1
             /\ UNCHANGED md_pc
    /\ UNCHANGED <<meta_files, smvars, nonmetavars>>

\* metadata In[4]: df = pd.DataFrame(all_data, index=index), the loop exhausted.
MdFrame ==
    /\ md_pc = "loop"
    /\ md_i > Len(meta_files)
    /\ md_pc' = "done"
    /\ UNCHANGED <<meta_files, md_i, md_all_data, md_index, smvars, nonmetavars>>

\* The similarity notebook reaches In[59] over the same header files.
RunSimilarityMeta ==
    /\ md_pc \in {"done", "raised"}
    /\ sm_pc = "idle"
    /\ sm_pc' = "loop"
    /\ UNCHANGED <<meta_files, mdvars, sm_i, sm_all_metadata, sm_index, nonmetavars>>

\* tcp_id in filekeys
InFileKeys(id) == \E r \in 1..Len(sim_filekeys) : sim_filekeys[r] = id

\* similarity In[59]: one iteration of "for f in metadata_files".
SmIter ==
    /\ sm_pc = "loop"
    /\ sm_i <= Len(meta_files)
    /\ LET h == meta_files[sm_i] IN
        IF InFileKeys(TcpId(h.path))
        THEN IF BodyRaises(h)
             THEN /\ sm_pc' = "raised"
                  /\ UNCHANGED <<sm_i, sm_all_metadata, sm_index>>
             ELSE /\ sm_all_metadata' = Append(sm_all_metadata, DataOf(h))
                  /\ sm_index' = Append(sm_index, TcpId(h.path))
                  /\ sm_i' = sm_i + 1
                  /\ UNCHANGED sm_pc
        ELSE /\ sm_i' = sm_i + 1
             /\ UNCHANGED <<sm_all_metadata, sm_index, sm_pc>>
    /\ UNCHANGED <<meta_files, mdvars, nonmetavars>>

\* similarity In[59]: metadata_df, the loop exhausted.
SmFrame ==
    /\ sm_pc = "loop"
    /\ sm_i > Len(meta_files)
    /\ sm_pc' = "done"
    /\ UNCHANGED <<meta_files, mdvars, sm_i, sm_all_metadata, sm_index, nonmetavars>>

----------------------------------------------------------------------------
(* metadata.py In[21]: standardize_name *)

Letters ==
    {"a", "b", "c", "d", "e", "f", "g", "h", "i", "j", "k", "l", "m",
     "n", "o", "p", "q", "r", "s", "t", "u", "v", "w", "x", "y", "z",
     "A", "B", "C", "D", "E", "F", "G", "H", "I", "J", "K", "L", "M",
     "N", "O", "P", "Q", "R", "S", "T", "U", "V", "W", "X", "Y", "Z"}

\* What \s matches.
Whitespace == {" ", "\t", "\n", "\r", "\f"}

\* Whether old occurs in s at position at.
OccursAt(s, old, at) ==
    /\ at + Len(old) - 1 <= Len(s)
    /\ SubSeq(s, at, at + Len(old) - 1) = old

\* str.replace(old, new) from position at on, for a non-empty old.
RECURSIVE ReplaceFrom(_, _, _, _)
ReplaceFrom(s, old, new, at) ==
    IF at > Len(s) THEN <<>>
    ELSE IF OccursAt(s, old, at)
         THEN new \o ReplaceFrom(s, old, new, at + Len(old))
         ELSE <<s[at]>> \o ReplaceFrom(s, old, new, at + 1)

Replace(s, old, new) == ReplaceFrom(s, old, new, 1)

\* str.strip(chars)
RECURSIVE Strip(_, _)
Strip(s, chars) ==
    IF s = <<>> THEN s
    ELSE IF Head(s) \in chars THEN Strip(Tail(s), chars)
    ELSE IF s[Len(s)] \in chars THEN Strip(SubSeq(s, 1, Len(s) - 1), chars)
    ELSE s

\* re.sub(f"{k}[^a-zA-Z\s]", v, s) from position at on, for a key k of plain
\* characters: every k followed by a character that is neither a letter nor
\* whitespace is replaced, with that character, by v.
RECURSIVE ReSubFrom(_, _, _, _)
ReSubFrom(s, k, v, at) ==
    IF at > Len(s) THEN <<>>
    ELSE IF /\ OccursAt(s, k, at)
            /\ at + Len(k) <= Len(s)
            /\ s[at + Len(k)] \notin Letters \cup Whitespace
         THEN v \o ReSubFrom(s, k, v, at + Len(k) + 1)
         ELSE <<s[at]>> \o ReSubFrom(s, k, v, at + 1)

\* re.sub with the pattern f"{k}": the character after the key is left in place
\* and a key is replaced wherever it occurs.
ReSub_KeyOnly(s, k, v) == Replace(s, k, v)

ReSub(s, k, v) == ReSubFrom(s, k, v, 1)

\* standardize_name, lines 166-168: brackets, strip, Iohn.
StdClean ==
    /\ nm_pc = "call"
    /\ nm_name' =
        Replace(Strip(Replace(Replace(nm_name, <<"[">>, <<>>), <<"]">>, <<>>),
                      {",", "'"}),
                <<"I", "o", "h", "n">>, <<"J", "o", "h", "n">>)
    /\ nm_k' = 1
    /\ nm_pc' = "loop"
    /\ UNCHANGED <<nm_arg, name_abbrev, nonnamevars>>

\* One iteration of "for k,v in name_abbrev.items()" (lines 171-172).
StdAbbrev ==
    /\ nm_pc = "loop"
    /\ nm_k <= Len(name_abbrev)
    /\ nm_name' = ReSub(nm_name, name_abbrev[nm_k].k, name_abbrev[nm_k].v)
    /\ nm_k' = nm_k + 1
    /\ UNCHANGED <<nm_arg, name_abbrev, nm_pc, nonnamevars>>

\* return name
StdReturn ==
    /\ nm_pc = "loop"
    /\ nm_k > Len(name_abbrev)
    /\ nm_pc' = "returned"
    /\ UNCHANGED <<nm_arg, nm_name, name_abbrev, nm_k, nonnamevars>>

----------------------------------------------------------------------------
(* metadata.py In[22]: the edge list *)

\* standardize_name, lines 171-172, from the k-th item of the table on.
RECURSIVE AbbrevFrom(_, _, _)
AbbrevFrom(name, table, k) ==
    IF k > Len(table) THEN name
    ELSE AbbrevFrom(ReSub(name, table[k].k, table[k].v), table, k + 1)

\* standardize_name(name) as one value, with name_abbrev = table. None has no
\* replace(): the call raises AttributeError.
standardize_name(name, table) ==
    IF name = None THEN Raised
    ELSE AbbrevFrom(
            Replace(Strip(Replace(Replace(name, <<"[">>, <<>>), <<"]">>, <<>>),
                          {",", "'"}),
                    <<"I", "o", "h", "n">>, <<"J", "o", "h", "n">>),
            table, 1)

\* (tcp_id, standardize_name(p.text), {'date':date})
Edge(tcp_id, printer, date) == <<tcp_id, printer, [date |-> date]>>

\* "for p in printers: edgelist.append(...)" from the k-th printer on: the
\* tuples appended until standardize_name raises, were it to raise.
RECURSIVE EdgesFrom(_, _, _, _, _)
EdgesFrom(tcp_id, printers, date, table, k) ==
    IF k > Len(printers) THEN <<>>
    ELSE IF standardize_name(printers[k], table) = Raised THEN <<>>
    ELSE <<Edge(tcp_id, standardize_name(printers[k], table), date)>>
         \o EdgesFrom(tcp_id, printers, date, table, k + 1)

\* Whether the inner loop raises: some persName has no text.
PrintersRaise(printers) == \E k \in 1..Len(printers) : printers[k] = None

\* One iteration of "for f in files" (lines 190-204). printers holds p.text of
\* each persName that findall() returned, in document order.
ElIter ==
    /\ el_pc = "loop"
    /\ el_i <= Len(net_files)
    /\ LET h == net_files[el_i]
           tcp_id == TcpId(h.path)
           date == Date(h)
       IN /\ edgelist' = edgelist \o EdgesFrom(tcp_id, h.printers, date, name_abbrev, 1)
          /\ IF PrintersRaise(h.printers)
             THEN el_pc' = "raised" /\ UNCHANGED el_i
             ELSE el_i' = el_i + 1 /\ UNCHANGED el_pc
    /\ UNCHANGED <<net_files, B, subgraph_1660, g_pc, nonnetvars>>

\* The loop is exhausted: print(edgelist).
ElPrint ==
    /\ el_pc = "loop"
    /\ el_i > Len(net_files)
    /\ el_pc' = "done"
    /\ UNCHANGED <<net_files, el_i, edgelist, B, subgraph_1660, g_pc, nonnetvars>>

----------------------------------------------------------------------------
(* metadata.py In[23], In[25]: the graph B and subgraph_1660 *)

\* nx.Graph(): node -> attributes, edge (the set of its ends) -> attributes.
EmptyGraph == [nodes |-> <<>>, edges |-> <<>>]

\* dict.update(new)
Update(old, new) ==
    [k \in DOMAIN old \cup DOMAIN new |-> IF k \in DOMAIN new THEN new[k] ELSE old[k]]

\* The attributes of node n of G, {} for a node G does not have.
NodeAttr(G, n) == IF n \in DOMAIN G.nodes THEN G.nodes[n] ELSE <<>>

\* G.add_nodes_from(ns, **attr): a new node gets attr, a node G already has
\* gets its attributes updated with attr.
AddNodesFrom(G, ns, attr) ==
    [G EXCEPT !.nodes =
        [n \in DOMAIN G.nodes \cup ns |->
            IF n \in ns THEN Update(NodeAttr(G, n), attr) ELSE G.nodes[n]]]

\* G.add_edge(u, v, **dd): both ends become nodes; the attributes of an edge
\* G already has are updated with dd.
AddEdge(G, u, v, dd) ==
    [nodes |-> [n \in DOMAIN G.nodes \cup {u, v} |-> NodeAttr(G, n)],
     edges |-> [e \in DOMAIN G.edges \cup {{u, v}} |->
                  IF e = {u, v}
                  THEN Update(IF e \in DOMAIN G.edges THEN G.edges[e] ELSE <<>>, dd)
                  ELSE G.edges[e]]]

\* G.add_edges_from(ebunch) from the k-th tuple on.
RECURSIVE AddEdgesFrom(_, _, _)
AddEdgesFrom(G, ebunch, k) ==
    IF k > Len(ebunch) THEN G
    ELSE AddEdgesFrom(AddEdge(G, ebunch[k][1], ebunch[k][2], ebunch[k][3]), ebunch, k + 1)

\* texts = list(set(e[0] ...)), printers = list(set(e[1] ...))
TextsOf(es) == {es[k][1] : k \in 1..Len(es)}
PrintersOf(es) == {es[k][2] : k \in 1..Len(es)}

\* In[23], lines 219-236: the texts, then the printers, then the edges.
BuildGraph(es) ==
    AddEdgesFrom(
        AddNodesFrom(
            AddNodesFrom(EmptyGraph, TextsOf(es), [bipartite |-> "text", group |-> 1]),
            PrintersOf(es), [bipartite |-> "printer", group |-> 2]),
        es, 1)

\* The cell In[23].
GraphBuild ==
    /\ el_pc = "done"
    /\ g_pc = "idle"
    /\ B' = BuildGraph(edgelist)
    /\ g_pc' = "built"
    /\ UNCHANGED <<net_files, el_i, edgelist, el_pc, subgraph_1660, nonnetvars>>

\* The value of a decimal digit, -1 for any other character.
DigitValue(c) ==
    CASE c = "0" -> 0 [] c = "1" -> 1 [] c = "2" -> 2 [] c = "3" -> 3
      [] c = "4" -> 4 [] c = "5" -> 5 [] c = "6" -> 6 [] c = "7" -> 7
      [] c = "8" -> 8 [] c = "9" -> 9 [] OTHER -> -1

\* int(s) reads: optional whitespace around an optional sign and decimal
\* digits, with single underscores between digits.
IntBody(s) ==
    LET t == Strip(s, Whitespace)
    IN IF t # <<>> /\ Head(t) \in {"+", "-"} THEN Tail(t) ELSE t

IntNegative(s) ==
    LET t == Strip(s, Whitespace) IN t # <<>> /\ Head(t) = "-"

\* Whether int(s) returns; it raises ValueError otherwise.
IntParses(s) ==
    LET b == IntBody(s) IN
    /\ b # <<>>
    /\ DigitValue(b[1]) >= 0
    /\ DigitValue(b[Len(b)]) >= 0
    /\ \A k \in 1..Len(b) : DigitValue(b[k]) >= 0 \/ b[k] = "_"
    /\ \A k \in 1..(Len(b) - 1) : ~(b[k] = "_" /\ b[k + 1] = "_")

RECURSIVE DigitsValue(_, _)
DigitsValue(b, acc) ==
    IF b = <<>> THEN acc
    ELSE IF Head(b) = "_" THEN DigitsValue(Tail(b), acc)
    ELSE DigitsValue(Tail(b), 10 * acc + DigitValue(Head(b)))

\* int(s), where it returns.
IntOf(s) == IF IntNegative(s) THEN 0 - DigitsValue(IntBody(s), 0)
          ELSE DigitsValue(IntBody(s), 0)

\* d['date'] is not None and int(d['date']) == 1660, where int() returns.
Is1660(d) == d.date # None /\ IntOf(d.date) = 1660

\* Whether the condition of the comprehension raises for the attributes d.
Is1660Raises(d) == d.date # None /\ ~IntParses(d.date)

\* G.edge_subgraph(edges): the edges of G among edges, and their ends.
EdgeSubgraph(G, edges) ==
    LET kept == DOMAIN G.edges \cap edges
    IN [nodes |-> [n \in UNION kept |-> G.nodes[n]],
        edges |-> [e \in kept |-> G.edges[e]]]

\* The cell In[25]: the comprehension over B.edges(data=True), then the view.
Subgraph ==
    /\ g_pc = "built"
    /\ IF \E e \in DOMAIN B.edges : Is1660Raises(B.edges[e])
       THEN /\ g_pc' = "raised"
            /\ UNCHANGED subgraph_1660
       ELSE /\ subgraph_1660' =
                EdgeSubgraph(B, {e \in DOMAIN B.edges : Is1660(B.edges[e])})
            /\ g_pc' = "subgraph"
    /\ UNCHANGED <<net_files, el_i, edgelist, el_pc, B, nonnetvars>>

----------------------------------------------------------------------------
(* similarity.py In[58]: top5_cosine *)

A53049 == <<"A", "5", "3", "0", "4", "9">>

\* nsmallest(6, ...)
TopN == 6

\* The place of row p when the rows are put in ascending order of column:
\* rows of equal value keep the order of the index (keep='first').
RankOf(column, p) ==
    1 + Cardinality({q \in 1..Len(column) :
                        \/ column[q] < column[p]
                        \/ column[q] = column[p] /\ q < p})

\* df.nsmallest(n, 'A53049')['A53049']: the n rows of least value, ascending.
NSmallest(df, n) ==
    LET row(r) == CHOOSE p \in 1..Len(df.A53049) : RankOf(df.A53049, p) = r
        m == Min(n, Len(df.A53049))
    IN [index |-> [r \in 1..m |-> df.index[row(r)]],
        A53049 |-> [r \in 1..m |-> df.A53049[row(r)]]]

\* series[1:]
FromSecond(series) ==
    [index |-> SubSeq(series.index, 2, Len(series.index)),
     A53049 |-> SubSeq(series.A53049, 2, Len(series.A53049))]

\* The cell In[58].
Top5 ==
    /\ top_pc = "ready"
    /\ top5_cosine' = FromSecond(NSmallest(cosine_df, TopN))
    /\ top_pc' = "done"
    /\ UNCHANGED <<cosine_df, nontopvars>>

----------------------------------------------------------------------------
(* 1666_texts/get_texts.py: the copy loop *)

\* seq[:-1]
AllButLast(seq) == SubSeq(seq, 1, Len(seq) - 1)

\* i[:3]
FirstThree(i) == SubSeq(i, 1, Min(3, Len(i)))

\* "/home/data/phase1texts/texts/{}/{}.xml".format(small_i, i)
Location(small_i, i) ==
    <<"/", "h", "o", "m", "e", "/", "d", "a", "t", "a", "/",
      "p", "h", "a", "s", "e", "1", "t", "e", "x", "t", "s", "/",
      "t", "e", "x", "t", "s", "/">>
    \o small_i \o <<"/">> \o i \o <<".", "x", "m", "l">>

\* "cp {} .".format(location)
Command(location) == <<"c", "p", " ">> \o location \o <<" ", ".">>

\* list_of_ids = textlist.read().split('\n'), print(list_of_ids)
GtRead ==
    /\ gt_pc = "start"
    /\ list_of_ids' = Split(texts_csv, "\n")
    /\ gt_i' = 1
    /\ gt_pc' = "loop"
    /\ UNCHANGED <<texts_csv, gt_commands, nongtvars>>

\* One iteration of "for i in list_of_ids[:-1]" (lines 10-19): whatever
\* subprocess.call raises is passed over.
GtIter ==
    /\ gt_pc = "loop"
    /\ gt_i <= Len(AllButLast(list_of_ids))
    /\ LET i == AllButLast(list_of_ids)[gt_i]
       IN gt_commands' = Append(gt_commands, Command(Location(FirstThree(i), i)))
    /\ gt_i' = gt_i + 1
    /\ UNCHANGED <<texts_csv, list_of_ids, gt_pc, nongtvars>>

\* The loop is exhausted and the script ends.
GtEnd ==
    /\ gt_pc = "loop"
    /\ gt_i > Len(AllButLast(list_of_ids))
    /\ gt_pc' = "done"
    /\ UNCHANGED <<texts_csv, list_of_ids, gt_i, gt_commands, nongtvars>>

----------------------------------------------------------------------------
(* Specifications *)

MaxTags == 3
MaxFiles == 2
MaxFileTags == 2

MetaInit(hs) ==
    /\ meta_files = hs
    /\ md_i = 1
    /\ md_all_data = <<>>
    /\ md_index = <<>>
    /\ sm_i = 1
    /\ sm_all_metadata = <<>>
    /\ sm_index = <<>>

\* The metadata loops are not run.
MetaIdle == MetaInit(<<>>) /\ md_pc = "idle" /\ sm_pc = "idle"

NameInit(arg, table) ==
    /\ nm_arg = arg
    /\ nm_name = arg
    /\ name_abbrev = table
    /\ nm_k = 1

\* standardize_name is not called.
NameIdle == NameInit(<<>>, <<>>) /\ nm_pc = "idle"

NetInit(hs) ==
    /\ net_files = hs
    /\ el_i = 1
    /\ edgelist = <<>>
    /\ B = EmptyGraph
    /\ subgraph_1660 = EmptyGraph
    /\ g_pc = "idle"

\* The network cells are not run.
NetIdle == NetInit(<<>>) /\ el_pc = "idle"

\* cosine_df, as far as In[58] reads it: the index and the column 'A53049'.
TopInit(index, column) ==
    /\ cosine_df = [index |-> index, A53049 |-> column]
    /\ top5_cosine = [index |-> <<>>, A53049 |-> <<>>]

\* In[58] is not run.
TopIdle == TopInit(<<>>, <<>>) /\ top_pc = "idle"

GtInit(csv) ==
    /\ texts_csv = csv
    /\ list_of_ids = <<>>
    /\ gt_i = 1
    /\ gt_commands = <<>>

\* get_texts.py is not run.
GtIdle == GtInit(<<>>) /\ gt_pc = "idle"

TokInit(fs) ==
    /\ tok_files = fs
    /\ tf_i = 1
    /\ tf_all_tokenized = <<>>
    /\ tf_df = EmptyFrame
    /\ sim_i = 1
    /\ sim_all_tokenized = <<>>
    /\ sim_df = EmptyFrame

\* The tf_idf and similarity notebooks are not run.
TokIdle == TokInit(<<>>) /\ sim_filekeys = <<>> /\ tf_pc = "idle" /\ sim_pc = "idle"

EpInit(doc) ==
    /\ paradiselost = doc
    /\ ep_i = 1
    /\ ep_all_sentences = <<>>
    /\ ep_new_sentence = <<>>

W2vInit(fs) ==
    /\ files = fs
    /\ f_i = 1
    /\ w_i = 0
    /\ all_sentences = <<>>
    /\ new_sentence = <<>>

\* The ep_xml and word2vec notebooks are not run.
SegIdle ==
    /\ EpInit(<<>>) /\ ep_pc = "idle"
    /\ W2vInit(<<>>) /\ w2v_pc = "idle"

\* One document, segmented by the XML tutorial and then by get_sentences.
InitSeg ==
    \E doc \in DocsUpTo(LeafKinds, MaxTags) :
        /\ EpInit(doc) /\ ep_pc = "loop"
        /\ W2vInit(<<doc>>) /\ w2v_pc = "idle"
        /\ TokIdle /\ MetaIdle /\ NameIdle /\ NetIdle /\ TopIdle /\ GtIdle

NextSeg == EpIter \/ EpPrint \/ RunWord2vec \/ W2vCall \/ GsIter \/ GsReturn \/ W2vEnd

SpecSeg == InitSeg /\ [][NextSeg]_vars

\* The word2vec notebook over a list of files.
\* Its documents are flat: every element is a child of the body.
Corpus ==
    {d \in DocsUpTo({WText, WLemma, PcSentence}, MaxFileTags) :
        \A k \in 1..Len(d) : d[k].pos = "root"}

InitW2v ==
    \E n \in 0..MaxFiles : \E fs \in [1..n -> Corpus] :
        /\ EpInit(<<>>) /\ ep_pc = "idle"
        /\ W2vInit(fs) /\ w2v_pc = "for"
        /\ TokIdle /\ MetaIdle /\ NameIdle /\ NetIdle /\ TopIdle /\ GtIdle

NextW2v == W2vCall \/ GsIter \/ GsReturn \/ W2vEnd

SpecW2v == InitW2v /\ [][NextW2v]_vars

----------------------------------------------------------------------------
(* Helpers of the properties *)

RECURSIVE Flatten(_)
Flatten(ss) == IF ss = <<>> THEN <<>> ELSE Head(ss) \o Flatten(Tail(ss))

RECURSIVE SelectIdx(_, _, _)
\* The indices k >= from of seq with seq[k] in set, in increasing order.
SelectIdx(seq, set, from) ==
    IF from > Len(seq) THEN <<>>
    ELSE IF seq[from] \in set THEN <<from>> \o SelectIdx(seq, set, from + 1)
    ELSE SelectIdx(seq, set, from + 1)

\* The texts of tags[lo..hi].
Texts(tags, lo, hi) == [k \in 1..(hi - lo + 1) |-> tags[lo + k - 1].text]

\* The index of the list of segs that holds the n-th entry of Flatten(segs).
RECURSIVE SegmentOf(_, _)
SegmentOf(segs, n) ==
    IF n <= Len(Head(segs)) THEN 1
    ELSE 1 + SegmentOf(Tail(segs), n - Len(Head(segs)))

----------------------------------------------------------------------------
(* C3: the ep_xml sentence loop *)

EpProcessed == SubSeq(Sample(paradiselost), 1, ep_i - 1)

EpEnds == SelectIdx(EpProcessed, {PcSentence, PcSentenceEmpty}, 1)

\* C3: after any prefix of the tags, all_sentences holds one list per processed
\* tag with unit='sentence': the texts of the tags since the previous such tag,
\* closed by the tag's own text when it is not None; new_sentence holds the texts
\* of the tags after the last such tag (so it was reset there), and a tag without
\* unit='sentence' has added no list.
C3_OneSentencePerBoundary ==
    /\ Len(ep_all_sentences) = Len(EpEnds)
    /\ \A j \in 1..Len(EpEnds) :
        LET lo == IF j = 1 THEN 1 ELSE EpEnds[j - 1] + 1
            hi == EpEnds[j]
            body == Texts(EpProcessed, lo, hi - 1)
        IN j <= Len(ep_all_sentences) /\
           ep_all_sentences[j] =
              IF EpProcessed[hi].text # None
              THEN Append(body, EpProcessed[hi].text)
              ELSE body
    /\ ep_new_sentence =
          Texts(EpProcessed,
                IF EpEnds = <<>> THEN 1 ELSE EpEnds[Len(EpEnds)] + 1,
                Len(EpProcessed))

C3_Witness ==
    /\ ep_pc = "done"
    /\ Len(ep_all_sentences) = 2
    /\ \E k \in 1..Len(EpProcessed) : EpProcessed[k] = PcSentenceEmpty
    /\ \E k \in 1..Len(EpProcessed) : EpProcessed[k] = WText

----------------------------------------------------------------------------
(* C1: get_sentences over every file *)

\* The token of every <w> of every file, in file order then document order.
RECURSIVE AllTokens(_)
AllTokens(fs) ==
    IF fs = <<>> THEN <<>>
    ELSE LET doc == Head(fs)
             idx == WordIdx(doc)
         IN [n \in 1..Len(idx) |-> Lower(LemmaOrText(doc[idx[n]].e))]
            \o AllTokens(Tail(fs))

\* C1: once get_sentences has been called for every file, the sentence lists of
\* all_sentences hold, between them, the token of every <w> of every file exactly
\* once and in document order, the words after the last boundary included.
C1_EveryWordCollected ==
    w2v_pc = "done" => Flatten(all_sentences) = AllTokens(files)

----------------------------------------------------------------------------
(* C2: get_sentences against the tutorial's loop, on one document *)

\* get_sentences has finished its loop over the document the tutorial segmented.
BothSegmented ==
    /\ ep_pc = "done"
    /\ w2v_pc = "call"
    /\ w_i > Len(WordIdx(files[f_i]))

\* The tutorial's sentences, restricted to the texts of <w> elements.
EpWordSentences ==
    LET segs == Append(ep_all_sentences, ep_new_sentence)
    IN [j \in 1..Len(segs) |->
            SelectSeq(segs[j], LAMBDA t : t \notin {<<".">>, <<",">>})]

GsSentences == Append(all_sentences, new_sentence)

\* An element with unit='sentence' lies between the n-th and the (n+1)-th <w>.
BoundaryAfterWord(doc, n) ==
    \E k \in (WordIdx(doc)[n] + 1)..(WordIdx(doc)[n + 1] - 1) :
        IsSentenceEnd(doc[k].e)

\* The tutorial's loop does split two consecutive words exactly at the boundaries.
EpSplitsAtBoundaries ==
    BothSegmented =>
        \A n \in 1..(Len(WordIdx(paradiselost)) - 1) :
            (SegmentOf(EpWordSentences, n) # SegmentOf(EpWordSentences, n + 1))
                <=> BoundaryAfterWord(paradiselost, n)

\* C2: get_sentences puts two consecutive <w> elements in different sentences if
\* and only if an element with unit='sentence' lies between them, as the
\* tutorial's loop does, whatever the nesting of the elements.
C2_SameSentencesAsTutorial ==
    BothSegmented =>
        \A n \in 1..(Len(WordIdx(paradiselost)) - 1) :
            /\ (SegmentOf(GsSentences, n) # SegmentOf(GsSentences, n + 1))
                  <=> BoundaryAfterWord(paradiselost, n)
            /\ (SegmentOf(GsSentences, n) # SegmentOf(GsSentences, n + 1))
                  <=> (SegmentOf(EpWordSentences, n) # SegmentOf(EpWordSentences, n + 1))

----------------------------------------------------------------------------
(* The tf_idf and similarity notebooks over the files of one directory *)

MaxWords == 3

\* The directory part of the glob pattern: "1666_texts/" as written, a directory
\* at another depth, or none.
Dirs == {<<"t", "/">>, <<"c", "/", "t", "/">>, <<>>}

FileIds == {<<"A">>, <<"B">>, <<"C">>}

Dot_xml == <<".", "x", "m", "l">>

TokKinds == {WText, WLemma, WReg, WEmpty, WRegEmpty, PcPlain}

Flat(elems) == [k \in 1..Len(elems) |-> [e |-> elems[k], pos |-> "root"]]

TokTrees == {Flat(d) : d \in UNION {[1..k -> TokKinds] : k \in 0..MaxWords}}

SmallTrees ==
    {Flat(<<>>), Flat(<<WText>>), Flat(<<WReg, WText>>), Flat(<<WLemma, WReg, WLemma>>)}

\* What glob.glob(dir + "*.xml") can return: distinct files of one directory, in
\* any order; either one file with any tree, or several with a few trees.
TokFileLists ==
    {[r \in 1..1 |-> [path |-> dir \o id \o Dot_xml, tree |-> t]] :
        dir \in Dirs, id \in FileIds, t \in TokTrees}
    \cup
    UNION {
        {[r \in 1..n |-> [path |-> dir \o ids[r] \o Dot_xml, tree |-> ts[r]]] :
            ids \in {f \in [1..n -> FileIds] :
                        \A a, b \in 1..n : a # b => f[a] # f[b]},
            ts \in [1..n -> SmallTrees]} :
        dir \in Dirs, n \in 0..MaxFiles}

InitTok ==
    \E fs \in TokFileLists :
        /\ TokInit(fs) /\ sim_filekeys = <<>> /\ tf_pc = "loop" /\ sim_pc = "idle"
        /\ SegIdle /\ MetaIdle /\ NameIdle /\ NetIdle /\ TopIdle /\ GtIdle

NextTok == TfIter \/ TfCount \/ RunSimilarity \/ SimKeys \/ SimIter \/ SimCount

SpecTok == InitTok /\ [][NextTok]_vars

----------------------------------------------------------------------------
(* C6, C7: the token lists *)

\* The <w> elements of a tree whose text is not None, in document order.
SpokenWords(tree) ==
    SelectSeq([k \in 1..Len(tree) |-> tree[k].e],
              LAMBDA e : e.tag = "w" /\ e.text # None)

TokenRaised(pc, i) == pc = "raised" /\ i <= Len(tok_files)

\* C6: the token list tf_idf builds for a file holds one token for each <w>
\* whose text is not None, in document order: the lowercased 'reg' attribute
\* when there is one, else the lowercased text; a <w> whose text is None gives no
\* token, with or without 'reg', and the loop never raises.
C6_TfTokens ==
    /\ ~TokenRaised(tf_pc, tf_i)
    /\ tf_pc # "idle" => Len(tf_all_tokenized) = tf_i - 1
    /\ \A r \in 1..Len(tf_all_tokenized) :
        LET ws == SpokenWords(tok_files[r].tree) IN
        /\ Len(tf_all_tokenized[r]) = Len(ws)
        /\ \A k \in 1..Len(ws) :
            tf_all_tokenized[r][k] =
                Lower(IF ws[k].reg # Absent THEN ws[k].reg ELSE ws[k].text)

C6_Witness ==
    /\ Len(tf_all_tokenized) = 1
    /\ \E a, b, c \in 1..Len(tok_files[1].tree) :
        /\ tok_files[1].tree[a].e = WRegEmpty
        /\ tok_files[1].tree[b].e = WReg
        /\ tok_files[1].tree[c].e = WLemma
    /\ Len(tf_all_tokenized[1]) = 2

----------------------------------------------------------------------------
(* C8, C9: the count table *)

\* The file name without its directory and without the .xml extension.
FileId(path) ==
    LET name == Last(Split(path, "/")) IN SubSeq(name, 1, Len(name) - Len(Dot_xml))

Occurrences(a, w) == Cardinality({k \in 1..Len(a) : a[k] = w})

Terms(all_tokenized) ==
    UNION {{all_tokenized[r][k] : k \in 1..Len(all_tokenized[r])} :
              r \in 1..Len(all_tokenized)}

RowsLabelledById(df, all_tokenized) ==
    /\ Len(df.index) = Len(tok_files)
    /\ Len(df.cell) = Len(tok_files)
    /\ \A r \in 1..Len(tok_files) :
        /\ df.index[r] = FileId(tok_files[r].path)
        /\ \A w \in df.columns :
            df.cell[r][w] > 0 <=> \E k \in 1..Len(all_tokenized[r]) : all_tokenized[r][k] = w

SimRowsLabelledById ==
    sim_pc = "counted" => RowsLabelledById(sim_df, sim_all_tokenized)

\* C8: in tf_idf and in similarity, row i of df is labelled with the file ID of
\* files[i] and counts all_tokenized[i], for every list of paths the glob can
\* return, also with a directory at another depth.
C8_RowsLabelledById ==
    /\ tf_pc = "counted" => RowsLabelledById(tf_df, tf_all_tokenized)
    /\ sim_pc = "counted" => RowsLabelledById(sim_df, sim_all_tokenized)

CountsExact(df, all_tokenized) ==
    /\ df.columns = Terms(all_tokenized)
    /\ Len(df.cell) = Len(all_tokenized)
    /\ \A r \in 1..Len(all_tokenized) : \A w \in Terms(all_tokenized) :
        df.cell[r][w] = Occurrences(all_tokenized[r], w)

----------------------------------------------------------------------------
(* The metadata loops over the header files *)

MaxHeaders == 2

HeaderDir == <<".", ".", "/", "h", "/">>

\* The path of the header file of a text: ../h/<TCP ID>_h.xml
HeaderPath(id) == HeaderDir \o id \o <<"_", "h">> \o Dot_xml

TitleElems == {NoMeta, MetaElem(Absent, <<"T", "i">>)}
AuthorElems == {NoMeta, MetaElem(Absent, <<"A", "u">>)}
DateElems == {NoMeta, MetaElem(Absent, None), MetaElem(<<"1", "6", "6", "0">>, None)}

Headers(id) ==
    {[path |-> HeaderPath(id), title |-> t, author |-> a, date |-> d] :
        t \in TitleElems, a \in AuthorElems, d \in DateElems}

\* What the glob over the header directory can return: the header files of
\* distinct texts, in any order.
HeaderLists ==
    UNION {
        UNION {{hs \in [1..n -> UNION {Headers(id) : id \in FileIds}] :
                    \A r \in 1..n : hs[r].path = HeaderPath(ids[r])} :
               ids \in {f \in [1..n -> FileIds] :
                           \A a, b \in 1..n : a # b => f[a] # f[b]}} :
        n \in 0..MaxHeaders}

\* The texts of the corpus directory that similarity In[2], In[3] went through.
CorpusFileLists ==
    {[r \in 1..n |-> [path |-> <<"t", "/">> \o ids[r] \o Dot_xml, tree |-> Flat(<<WText>>)]] :
        n \in {0, 1, 2}, ids \in {<<<<"A">>, <<"B">>>>}}

\* similarity.py after In[3]: filekeys, all_tokenized and df of the files fs.
SimCounted(fs) ==
    /\ tok_files = fs
    /\ sim_filekeys = [r \in 1..Len(fs) |-> SimLabel(fs[r].path)]
    /\ sim_i = Len(fs) + 1
    /\ sim_all_tokenized = [r \in 1..Len(fs) |-> Tokenize(fs[r].tree, "lemma")]
    /\ sim_df = FillNa(DataFrame(AllCounted(sim_all_tokenized), sim_filekeys), 0)
    /\ sim_pc = "counted"

InitMeta ==
    \E hs \in HeaderLists : \E fs \in CorpusFileLists :
        /\ MetaInit(hs) /\ md_pc = "loop" /\ sm_pc = "idle"
        /\ SimCounted(fs)
        /\ tf_i = 1 /\ tf_all_tokenized = <<>> /\ tf_df = EmptyFrame /\ tf_pc = "idle"
        /\ SegIdle /\ NameIdle /\ NetIdle /\ TopIdle /\ GtIdle

NextMeta == MdIter \/ MdFrame \/ RunSimilarityMeta \/ SmIter \/ SmFrame

SpecMeta == InitMeta /\ [][NextMeta]_vars

----------------------------------------------------------------------------
(* C4, C5: the records of the metadata loops *)

\* The record a header with a title element is to yield.
ExpectedData(h) ==
    [title |-> h.title.text,
     author |-> IF h.author = NoMeta THEN None ELSE h.author.text,
     date |-> IF h.date = NoMeta \/ h.date.when = Absent THEN None ELSE h.date.when]

\* The positions before i of the header files whose TCP ID is in filekeys.
RECURSIVE KeptBefore(_, _)
KeptBefore(i, r) ==
    IF r >= i THEN <<>>
    ELSE IF InFileKeys(TcpId(meta_files[r].path)) THEN <<r>> \o KeptBefore(i, r + 1)
    ELSE KeptBefore(i, r + 1)

\* The positions before i of the header files that have a title element.
RECURSIVE TitledBefore(_, _)
TitledBefore(i, r) ==
    IF r >= i THEN <<>>
    ELSE IF meta_files[r].title # NoMeta THEN <<r>> \o TitledBefore(i, r + 1)
    ELSE TitledBefore(i, r + 1)

\* data and index hold one entry for each header file at the positions from, in
\* order: its record and its TCP ID.
RecordsOf(data, index, from) ==
    /\ Len(data) = Len(from)
    /\ Len(index) = Len(from)
    /\ \A r \in 1..Len(from) :
        /\ r <= Len(data) /\ r <= Len(index)
        /\ index[r] = <<meta_files[from[r]].path[Len(HeaderDir) + 1]>>
        /\ data[r] = ExpectedData(meta_files[from[r]])

\* The loop stopped at position i only for a missing title element.
OnlyTitleAborts(pc, i) == pc = "raised" => meta_files[i].title = NoMeta

\* C4 as claimed: in both loops every header file passed that has a title
\* element has given exactly one record and one TCP ID, author and date None
\* where missing, index[i] the TCP ID of the file of record i, and no missing
\* author or date has stopped the loop.
C4_OneRecordPerHeader ==
    /\ RecordsOf(md_all_data, md_index, TitledBefore(md_i, 1))
    /\ OnlyTitleAborts(md_pc, md_i)
    /\ RecordsOf(sm_all_metadata, sm_index, TitledBefore(sm_i, 1))
    /\ OnlyTitleAborts(sm_pc, sm_i)

\* C4 as amended: as claimed in metadata.py; in similarity.py it is every header
\* file passed whose TCP ID is in filekeys that has given one record and one TCP
\* ID, the others none.
C4_OneRecordPerKeptHeader ==
    /\ RecordsOf(md_all_data, md_index, TitledBefore(md_i, 1))
    /\ OnlyTitleAborts(md_pc, md_i)
    /\ RecordsOf(sm_all_metadata, sm_index, KeptBefore(sm_i, 1))
    /\ OnlyTitleAborts(sm_pc, sm_i)

C4_Witness ==
    /\ md_pc = "done"
    /\ sm_pc = "done"
    /\ Len(md_all_data) = 2
    /\ Len(sm_all_metadata) = 1
    /\ \E r \in 1..2 :
        /\ meta_files[r].author = NoMeta
        /\ meta_files[r].date = NoMeta
        /\ md_all_data[r].author = None
        /\ md_all_data[r].date = None
        /\ sm_index = <<md_index[r]>>

\* The first position at or after r of a header file (in similarity: one whose
\* TCP ID is in filekeys) without title element; 0 when there is none.
RECURSIVE FirstUntitled(_, _)
FirstUntitled(r, kept) ==
    IF r > Len(meta_files) THEN 0
    ELSE IF meta_files[r].title = NoMeta
            /\ (kept => InFileKeys(TcpId(meta_files[r].path)))
         THEN r
    ELSE FirstUntitled(r + 1, kept)

\* C5 as claimed: a missing title element is caught like a missing author or
\* date: the loops never stop on it, and the file yields a record with title None.
C5_MissingTitleCaught ==
    /\ md_pc # "raised"
    /\ sm_pc # "raised"
    /\ md_pc = "done" =>
        /\ Len(md_all_data) = Len(meta_files)
        /\ \A r \in 1..Len(meta_files) :
            meta_files[r].title = NoMeta => md_all_data[r].title = None

StopsAt(first, pc, i, data) ==
    first # 0 =>
        /\ pc # "done"
        /\ i <= first
        /\ Len(data) < first
        /\ pc = "raised" => i = first

\* C5 as amended: a missing title element is not caught: the loop stops at the
\* first header file without one (in similarity.py, the first whose TCP ID is in
\* filekeys), which yields no record, and no file after it is processed.
C5_MissingTitleAborts ==
    /\ StopsAt(FirstUntitled(1, FALSE), md_pc, md_i, md_all_data)
    /\ StopsAt(FirstUntitled(1, TRUE), sm_pc, sm_i, sm_all_metadata)
    /\ md_pc = "raised" => FirstUntitled(1, FALSE) # 0
    /\ sm_pc = "raised" => FirstUntitled(1, TRUE) # 0

C5_Witness ==
    /\ md_pc = "raised"
    /\ sm_pc = "raised"
    /\ Len(meta_files) = 2
    /\ md_i = 1
    /\ md_all_data = <<>>
    /\ sm_all_metadata = <<>>

----------------------------------------------------------------------------
(* standardize_name over printers' names and abbreviation tables *)

MaxAbbrev == 2

Thomas_Newcomb ==
    <<"T", "h", "o", "m", "a", "s", " ", "N", "e", "w", "c", "o", "m", "b">>

\* The four spellings of lines 146-151.
NewcombVariants ==
    {Thomas_Newcomb,
     <<"T", "h", "o", ".", " ", "N", "e", "w", "c", "o", "m", "b">>,
     <<"T", "[", "h", "o", "m", "a", "s", "]", " ",
       "N", "[", "e", "w", "c", "o", "m", "b", "]">>,
     <<"T", "h", "o", ":", " ", "N", "e", "w", "c", "o", "m", "b">>}

\* Other names of the imprints: a stray comma and apostrophe, Iohn, Wil.
OtherNames ==
    {<<"'", "I", "o", "h", "n", " ", "F", "i", "e", "l", "d", ",">>,
     <<"W", "i", "l", ".", " ", "H", "a", "l", "l">>}

Abbrev(k, v) == [k |-> k, v |-> v]

Tho == Abbrev(<<"T", "h", "o">>, <<"T", "h", "o", "m", "a", "s">>)

\* Entries of name_abbrev.json: first-name abbreviations and what they stand for.
AbbrevEntries ==
    {Tho,
     Abbrev(<<"T", "h">>, <<"T", "h", "o", "m", "a", "s">>),
     Abbrev(<<"W", "i", "l">>, <<"W", "i", "l", "l", "i", "a", "m">>),
     Abbrev(<<"I", "o">>, <<"J", "o", "h", "n">>)}

\* The tables, in the order of their items, that map 'Tho' to 'Thomas'.
AbbrevTables ==
    UNION {{t \in [1..n -> AbbrevEntries] :
                /\ \A a, b \in 1..n : a # b => t[a].k # t[b].k
                /\ \E a \in 1..n : t[a] = Tho} :
           n \in 1..MaxAbbrev}

InitName ==
    \E arg \in NewcombVariants \cup OtherNames : \E table \in AbbrevTables :
        /\ NameInit(arg, table) /\ nm_pc = "call"
        /\ SegIdle /\ MetaIdle /\ TokIdle /\ NetIdle /\ TopIdle /\ GtIdle

NextName == StdClean \/ StdAbbrev \/ StdReturn

SpecName == InitName /\ [][NextName]_vars

\* C10: standardize_name gives 'Thomas Newcomb' for each of the four spellings
\* 'Thomas Newcomb', 'Tho. Newcomb', 'T[homas] N[ewcomb]' and 'Tho: Newcomb',
\* with every abbreviation table that maps 'Tho' to 'Thomas'.
C10_NewcombVariantsAgree ==
    (nm_pc = "returned" /\ nm_arg \in NewcombVariants) => nm_name = Thomas_Newcomb

C10_Witness ==
    /\ nm_pc = "returned"
    /\ nm_arg = <<"T", "h", "o", ":", " ", "N", "e", "w", "c", "o", "m", "b">>
    /\ Len(name_abbrev) = 2
    /\ name_abbrev[2] = Tho
    /\ nm_name = Thomas_Newcomb

----------------------------------------------------------------------------
(* The network cells of the metadata notebook over the header files *)

MaxPrinters == 2

Tho_dot == <<"T", "h", "o", ".">>

\* The text of a persName: an abbreviated name, a name in brackets, a name that
\* is also a TCP ID, or no text at all.
PrinterTexts == {Tho_dot, <<"[", "X", "]">>, <<"A">>, None}

Year1660 == <<"1", "6", "6", "0">>
Year1661 == <<"1", "6", "6", "1">>
Month1660 == <<"1", "6", "6", "0", "-", "0", "5">>

\* The date element of a header: none, one without 'when', a year, a month.
NetDates ==
    {NoMeta, MetaElem(Absent, None), MetaElem(Year1660, None),
     MetaElem(Year1661, None), MetaElem(Month1660, None)}

NetHeader(id, ps, d) == [path |-> HeaderPath(id), printers |-> ps, date |-> d]

\* What the glob can return: one header with any printers and date, or the
\* headers of several distinct texts with a few printers and dates.
NetHeaderLists ==
    {<<NetHeader(id, ps, d)>> :
        id \in FileIds,
        ps \in UNION {[1..n -> PrinterTexts] : n \in 0..MaxPrinters},
        d \in NetDates}
    \cup
    UNION {
        {[r \in 1..n |-> NetHeader(ids[r], ps[r], ds[r])] :
            ids \in {f \in [1..n -> FileIds] :
                        \A a, b \in 1..n : a # b => f[a] # f[b]},
            ps \in [1..n -> {<<>>, <<Tho_dot>>, <<<<"A">>>>, <<<<"B">>>>}],
            ds \in [1..n -> {MetaElem(Absent, None), MetaElem(Year1660, None),
                             MetaElem(Year1661, None)}]} :
        n \in 0..MaxHeaders}

InitNet ==
    \E hs \in NetHeaderLists :
        /\ NetInit(hs) /\ el_pc = "loop"
        /\ NameInit(<<>>, <<Tho>>) /\ nm_pc = "idle"
        /\ SegIdle /\ TokIdle /\ MetaIdle /\ TopIdle /\ GtIdle

NextNet == ElIter \/ ElPrint \/ GraphBuild \/ Subgraph

SpecNet == InitNet /\ [][NextNet]_vars

----------------------------------------------------------------------------
(* C11: the edge list *)

\* The TCP ID of the text a header file belongs to.
HeaderId(h) == CHOOSE id \in FileIds : h.path = HeaderPath(id)

\* The 'when' of the date element of a header, None without one.
WhenOf(h) ==
    IF h.date = NoMeta \/ h.date.when = Absent THEN None ELSE h.date.when

\* One tuple for each of the first n persName elements of header h.
TuplesOf(h, n) ==
    [k \in 1..n |->
        <<HeaderId(h), standardize_name(h.printers[k], name_abbrev), [date |-> WhenOf(h)]>>]

\* One tuple for every persName of every header of hs, in file order then
\* element order.
RECURSIVE TuplesOfAll(_)
TuplesOfAll(hs) ==
    IF hs = <<>> THEN <<>>
    ELSE TuplesOf(Head(hs), Len(Head(hs).printers)) \o TuplesOfAll(Tail(hs))

\* C11: when the loop over files is over, edgelist holds exactly one
\* tuple (TCP ID, standardize_name(text), {'date': date of the file}) for every
\* printer persName of every file, in file order then element order.
C11_OneEdgePerPrinter ==
    el_pc \in {"done", "raised"} => edgelist = TuplesOfAll(net_files)

----------------------------------------------------------------------------
(* C12: the graph B *)

\* Whether edge e of G joins a node labelled 'text' to one labelled 'printer'.
JoinsTextAndPrinter(G, e) ==
    \E u, v \in e :
        /\ e = {u, v}
        /\ G.nodes[u].bipartite = "text"
        /\ G.nodes[v].bipartite = "printer"

\* C12: in the graph B built from edgelist, every node carries a 'bipartite'
\* attribute equal to 'text' or 'printer', every edge joins one node labelled
\* 'text' to one node labelled 'printer', and every TCP ID of edgelist is
\* labelled 'text', also when a standardized printer name equals a TCP ID.
C12_Bipartite ==
    g_pc # "idle" =>
        /\ \A n \in DOMAIN B.nodes :
            /\ "bipartite" \in DOMAIN B.nodes[n]
            /\ B.nodes[n].bipartite \in {"text", "printer"}
        /\ \A e \in DOMAIN B.edges : JoinsTextAndPrinter(B, e)
        /\ \A k \in 1..Len(edgelist) :
            /\ edgelist[k][1] \in DOMAIN B.nodes
            /\ B.nodes[edgelist[k][1]].bipartite = "text"

----------------------------------------------------------------------------
(* C13: subgraph_1660 *)

\* Whether a date denotes the year 1660: the number 1660, or a date of it.
Denotes1660(date) ==
    \/ IntParses(date) /\ IntOf(date) = 1660
    \/ Len(date) > 4 /\ SubSeq(date, 1, 5) = Year1660 \o <<"-">>

\* The edges of G whose date is not None and denotes the year 1660.
EdgesOf1660(G) ==
    {e \in DOMAIN G.edges : G.edges[e].date # None /\ Denotes1660(G.edges[e].date)}

\* C13: once In[25] has run, subgraph_1660 holds exactly the edges of B whose
\* 'date' is not None and denotes the year 1660, with their attributes, and
\* exactly the nodes that are ends of those edges; no edge makes the cell
\* raise, and B is still the graph In[23] built.
C13_SubgraphOf1660 ==
    g_pc \in {"subgraph", "raised"} =>
        /\ g_pc = "subgraph"
        /\ DOMAIN subgraph_1660.edges = EdgesOf1660(B)
        /\ DOMAIN subgraph_1660.nodes = UNION EdgesOf1660(B)
        /\ \A e \in EdgesOf1660(B) : subgraph_1660.edges[e] = B.edges[e]
        /\ B = BuildGraph(edgelist)

----------------------------------------------------------------------------
(* In[58] over the distances of the texts to A53049 *)

MaxTexts == 6
MaxDistance == 2

\* The TCP IDs of the other texts of the corpus.
OtherIds == <<<<"B">>, <<"C">>, <<"D">>, <<"E">>, <<"F">>, <<"G">>, <<"H">>>>

\* The index of cosine_df (df.index, the files in the order of the glob): n
\* texts, with A53049 at place at.
IndexOf(n, at) ==
    [r \in 1..n |-> IF r = at THEN A53049 ELSE OtherIds[IF r < at THEN r ELSE r - 1]]

\* The column 'A53049' of a distance matrix with zero diagonal: the distance
\* of every text to A53049, as a level 0..MaxDistance, 0 for A53049 itself.
\* In[58] reads no other column.
InitTop ==
    \E n \in TopN..MaxTexts : \E at \in 1..n :
        \E column \in {c \in [1..n -> 0..MaxDistance] : c[at] = 0} :
            /\ TopInit(IndexOf(n, at), column) /\ top_pc = "ready"
            /\ SegIdle /\ TokIdle /\ MetaIdle /\ NameIdle /\ NetIdle /\ GtIdle

NextTop == Top5

SpecTop == InitTop /\ [][NextTop]_vars

----------------------------------------------------------------------------
(* C14: top5_cosine *)

\* The distance to A53049 of the text labelled id.
DistanceOf(id) ==
    cosine_df.A53049[CHOOSE r \in 1..Len(cosine_df.index) : cosine_df.index[r] = id]

\* The labels of a series.
LabelsOf(series) == {series.index[r] : r \in 1..Len(series.index)}

\* C14: top5_cosine holds the five texts nearest to A53049 other than A53049:
\* five entries, none of them A53049, in ascending order of distance, and no
\* text left out (other than A53049) strictly nearer than a text taken, also
\* when another text is at distance 0 from A53049.
C14_FiveNearestOthers ==
    top_pc = "done" =>
        /\ Len(top5_cosine.index) = 5
        /\ A53049 \notin LabelsOf(top5_cosine)
        /\ \A r \in 1..4 : top5_cosine.A53049[r] <= top5_cosine.A53049[r + 1]
        /\ \A r \in 1..5 : top5_cosine.A53049[r] = DistanceOf(top5_cosine.index[r])
        /\ \A out \in LabelsOf(cosine_df) \ (LabelsOf(top5_cosine) \cup {A53049}) :
            \A in \in LabelsOf(top5_cosine) : DistanceOf(out) >= DistanceOf(in)

----------------------------------------------------------------------------
(* get_texts.py over the lines of texts.csv *)

MaxIds == 3

\* TCP IDs as lines of texts.csv; one is shorter than three characters.
CsvIds == {<<"A", "5", "3", "0">>, <<"B", "2", "0">>, <<"C", "1">>}

\* The lines joined by newlines.
RECURSIVE JoinLines(_)
JoinLines(lines) ==
    IF lines = <<>> THEN <<>>
    ELSE IF Len(lines) = 1 THEN lines[1]
    ELSE lines[1] \o <<"\n">> \o JoinLines(Tail(lines))

\* texts.csv: one ID per line, the last line with or without its newline.
CsvFiles ==
    UNION {{JoinLines(ids) \o end : ids \in [1..n -> CsvIds], end \in {<<>>, <<"\n">>}} :
           n \in 0..MaxIds}

InitCopy ==
    \E csv \in CsvFiles :
        /\ GtInit(csv) /\ gt_pc = "start"
        /\ SegIdle /\ TokIdle /\ MetaIdle /\ NameIdle /\ NetIdle /\ TopIdle

NextCopy == GtRead \/ GtIter \/ GtEnd

SpecCopy == InitCopy /\ [][NextCopy]_vars

----------------------------------------------------------------------------
(* C15: the loops over files and IDs, each script run on its own *)

\* One of the scripts is run: the network cells, the metadata loops, word2vec
\* (after ep_xml, or over several files), tf_idf and similarity, or get_texts.
InitLoops == InitNet \/ InitMeta \/ InitSeg \/ InitW2v \/ InitTok \/ InitCopy

NextLoops == NextNet \/ NextMeta \/ NextSeg \/ NextTok \/ NextCopy

SpecLoops == InitLoops /\ [][NextLoops]_vars

\* A loop at position i of a list of n elements has made i - 1 iterations; when
\* its script is over it has made n.
ReachedEnd(pc, i, n) == pc \in {"done", "counted", "raised"} => i = n + 1

\* C15: every loop over a list of files or IDs visits the elements of its list
\* once each and in list order (what it has collected so far is what the
\* elements before its position yield), and when its script is over it has made
\* as many iterations as the list is long: the copy loop of get_texts, the
\* tokenization loops of tf_idf and similarity, the metadata loops and the loop
\* of word2vec over the files.
C15_EveryLoopReachesItsEnd ==
    /\ ReachedEnd(gt_pc, gt_i, Len(AllButLast(list_of_ids)))
    /\ gt_pc \in {"loop", "done"} =>
        gt_commands = [r \in 1..(gt_i - 1) |->
                          Command(Location(FirstThree(list_of_ids[r]), list_of_ids[r]))]
    /\ ReachedEnd(tf_pc, tf_i, Len(tok_files))
    /\ tf_pc # "idle" =>
        tf_all_tokenized = [r \in 1..(tf_i - 1) |-> Tokenize(tok_files[r].tree, "reg")]
    /\ ReachedEnd(sim_pc, sim_i, Len(tok_files))
    /\ sim_pc \notin {"idle", "start"} =>
        sim_all_tokenized = [r \in 1..(sim_i - 1) |-> Tokenize(tok_files[r].tree, "lemma")]
    /\ ReachedEnd(md_pc, md_i, Len(meta_files))
    /\ md_pc # "idle" => md_index = [r \in 1..(md_i - 1) |-> TcpId(meta_files[r].path)]
    /\ ReachedEnd(sm_pc, sm_i, Len(meta_files))
    /\ ReachedEnd(el_pc, el_i, Len(net_files))
    /\ ReachedEnd(w2v_pc, f_i, Len(files))

----------------------------------------------------------------------------
(* C16: what a call of get_sentences does to all_sentences *)

\* Files whose words differ from file to file.
FrameDocs ==
    {Flat(<<>>), Flat(<<WText>>),
     Flat(<<WText, PcSentence, WText>>),
     Flat(<<WLemma, PcSentence, WLemma>>),
     Flat(<<PcSentence, WLemma, WLemma, PcSentence, WLemma>>)}

\* word2vec over one file with any flat content, or over several of FrameDocs.
InitFrame ==
    \E fs \in {<<Flat(d)>> :
                  d \in UNION {[1..k -> {WText, WLemma, WEmpty, PcSentence}] :
                                  k \in 0..MaxTags}}
               \cup UNION {[1..n -> FrameDocs] : n \in 0..MaxFiles} :
        /\ EpInit(<<>>) /\ ep_pc = "idle"
        /\ W2vInit(fs) /\ w2v_pc = "for"
        /\ TokIdle /\ MetaIdle /\ NameIdle /\ NetIdle /\ TopIdle /\ GtIdle

SpecFrame == InitFrame /\ [][NextW2v]_vars

\* The tokens of the a-th to the b-th <w> of a document.
TokensOfWords(doc, a, b) ==
    [n \in 1..(b - a + 1) |-> Lower(LemmaOrText(doc[WordIdx(doc)[a + n - 1]].e))]

\* What a step of the call get_sentences(files[f_i]) may do to the module-level
\* state: leave all_sentences as it is, or add one sentence at its end, made of
\* the tokens of consecutive words of that file up to the word before the one
\* at hand.
AppendsOwnSentence ==
    /\ files' = files
    /\ \/ all_sentences' = all_sentences
       \/ /\ w2v_pc = "call"
          /\ \E a \in 1..w_i :
                all_sentences' =
                    Append(all_sentences, TokensOfWords(files[f_i], a, w_i - 1))

\* A call starts with an empty new_sentence at the first word of its file.
StartsAfresh ==
    (w2v_pc = "for" /\ w2v_pc' = "call") => (new_sentence' = <<>> /\ w_i' = 1)

\* C16: a call get_sentences(f) changes the state shared between calls only by
\* appending at the end of all_sentences: the sentences already there are
\* neither removed, reordered nor modified, every sentence the call appends is
\* made of tokens of file f only, and every call starts with an empty
\* new_sentence, whatever the call before it left.
C16_OnlyAppendsOwnSentences == [][AppendsOwnSentence /\ StartsAfresh]_vars

\* The second call has appended a sentence of its file after the sentence of
\* the first file, which was cut short of its last word.
C16_Witness ==
    /\ Len(files) = 2
    /\ files[1] = Flat(<<WText, PcSentence, WText>>)
    /\ files[2] = Flat(<<WLemma, PcSentence, WLemma>>)
    /\ f_i = 2
    /\ w2v_pc = "call"
    /\ all_sentences = <<<<<<"a", "b">>>>, <<<<"c", "d">>>>>>

====
